---- MODULE Spec2Model ----
(***************************************************************************)
(* Model of src/get_image.py: the image acquisition and naming cache of    *)
(* the poster scraper.  Strings (titles, URLs, file names) are sequences   *)
(* of one-character strings, so that sanitation, suffix handling and the   *)
(* collision counter work on text as the Python code does.                 *)
(***************************************************************************)
EXTENDS Naturals, Sequences, FiniteSets, TLC

(***************************************************************************)
(* Bounds of the model.                                                    *)
(***************************************************************************)
\* Largest number of image entries (empty ones included) in the manifest.
MaxPairs == 3
\* The same, where download_image is followed attempt by attempt.
MaxFetchPairs == 1
\* The same, where titles and URLs are drawn to exercise the filename deriver.
MaxDerivePairs == 2
\* The same, where an asset name is the temp path of another.
MaxPartPairs == 2

(***************************************************************************)
(* Text helpers.                                                           *)
(***************************************************************************)
Whitespace == {" "}
Illegal == {"\\", "/", ":", "*", "?", "\"", "<", ">", "|"}
Digits == <<"0", "1", "2", "3", "4", "5", "6", "7", "8", "9">>

\* str(n) for a natural number n.
RECURSIVE ToStr(_)
ToStr(n) ==
    IF n < 10 THEN <<Digits[n + 1]>>
    ELSE ToStr(n \div 10) \o <<Digits[(n % 10) + 1]>>

\* s.strip(chars): drop the characters of cs at both ends of s.
RECURSIVE LStrip(_, _)
LStrip(s, cs) ==
    IF s # <<>> /\ Head(s) \in cs THEN LStrip(Tail(s), cs) ELSE s

RECURSIVE RStrip(_, _)
RStrip(s, cs) ==
    IF s # <<>> /\ s[Len(s)] \in cs THEN RStrip(SubSeq(s, 1, Len(s) - 1), cs) ELSE s

Strip(s, cs) == RStrip(LStrip(s, cs), cs)

\* re.sub("[cs]+", "_", s): every maximal run of characters of cs becomes one "_".
RECURSIVE SubRuns(_, _)
SubRuns(s, cs) ==
    IF s = <<>> THEN <<>>
    ELSE IF Head(s) \in cs THEN <<"_">> \o SubRuns(LStrip(s, cs), cs)
    ELSE <<Head(s)>> \o SubRuns(Tail(s), cs)

FallbackName == <<"i", "m", "a", "g", "e">>
DefaultExt == <<".", "j", "p", "g">>
PartSuffix == <<".", "p", "a", "r", "t">>

\* sanitize_title, lines 37-40, up to cleaned.strip("_"): the cleaned title.
cleaned(title) ==
    LET c1 == SubRuns(Strip(title, Whitespace), Whitespace)
        c2 == SubRuns(c1, Illegal)
        c3 == SubRuns(c2, {"_"})
    IN Strip(c3, {"_"})

\* ... or "image": an empty cleaned title gives the literal fallback.
sanitize_title(title) ==
    LET c == cleaned(title)
    IN IF c # <<>> THEN c ELSE FallbackName

\* Index of the last occurrence of character c in s, 0 when there is none.
LastIndex(s, c) ==
    LET hits == {i \in DOMAIN s : s[i] = c}
    IN IF hits = {} THEN 0 ELSE CHOOSE i \in hits : \A j \in hits : j <= i

\* Index of the first occurrence of a character of cs in s at or after from, 0 if none.
FirstIndex(s, cs, from) ==
    LET hits == {i \in DOMAIN s : i >= from /\ s[i] \in cs}
    IN IF hits = {} THEN 0 ELSE CHOOSE i \in hits : \A j \in hits : i <= j

\* urlparse(url).path for a URL scheme://netloc/path?query#fragment.
UrlPath(url) ==
    LET colon == FirstIndex(url, {":"}, 1)
        hasNetloc == /\ colon > 0
                     /\ Len(url) >= colon + 2
                     /\ url[colon + 1] = "/"
                     /\ url[colon + 2] = "/"
        rest == IF hasNetloc THEN SubSeq(url, colon + 3, Len(url))
                ELSE IF colon > 0 THEN SubSeq(url, colon + 1, Len(url))
                ELSE url
        slash == FirstIndex(rest, {"/", "?", "#"}, 1)
        tail == IF ~hasNetloc THEN rest
                ELSE IF slash = 0 THEN <<>>
                ELSE SubSeq(rest, slash, Len(rest))
        cut == FirstIndex(tail, {"?", "#"}, 1)
    IN IF cut = 0 THEN tail ELSE SubSeq(tail, 1, cut - 1)

\* Path(p).name: the last component of p, trailing slashes ignored.
PathName(p) ==
    LET q == RStrip(p, {"/"})
        i == LastIndex(q, "/")
    IN SubSeq(q, i + 1, Len(q))

\* Path(p).suffix and Path(p).stem.
PathSuffix(p) ==
    LET name == PathName(p)
        i == LastIndex(name, ".")
    IN IF 1 < i /\ i < Len(name) THEN SubSeq(name, i, Len(name)) ELSE <<>>

PathStem(p) ==
    LET name == PathName(p)
        i == LastIndex(name, ".")
    IN IF 1 < i /\ i < Len(name) THEN SubSeq(name, 1, i - 1) ELSE name

\* filename_from_title numbering the images of a poster from 0.
filename_from_title_ZeroBased(title, url, index, total) ==
    LET path == UrlPath(url)
        suffix == PathSuffix(path)
        ext == IF suffix = <<>> THEN DefaultExt ELSE suffix
        st == sanitize_title(title)
        base_title == IF st # <<>> THEN st ELSE sanitize_title(PathStem(path))
    IN IF total > 1
       THEN <<base_title \o <<"_">> \o ToStr(index), ext>>
       ELSE <<base_title, ext>>

\* filename_from_title: <<base_name, extension>>.
filename_from_title(title, url, index, total) ==
    LET path == UrlPath(url)
        suffix == PathSuffix(path)
        ext == IF suffix = <<>> THEN DefaultExt ELSE suffix
        st == sanitize_title(title)
        base_title == IF st # <<>> THEN st ELSE sanitize_title(PathStem(path))
    IN IF total > 1
       THEN <<base_title \o <<"_">> \o ToStr(index + 1), ext>>
       ELSE <<base_title, ext>>

(***************************************************************************)
(* The name cache is a Python dict: a sequence of <<filename, url>> items  *)
(* in insertion order, no filename twice.                                  *)
(***************************************************************************)
Keys(d) == {d[i][1] : i \in DOMAIN d}
Values(d) == {d[i][2] : i \in DOMAIN d}
Has(d, k) == k \in Keys(d)
Get(d, k) == d[CHOOSE i \in DOMAIN d : d[i][1] = k][2]
\* del d[k] that leaves the item in place.
Del_KeepsItem(d, k) == d

Del(d, k) == SelectSeq(d, LAMBDA item : item[1] # k)
Put(d, k, v) ==
    IF Has(d, k)
    THEN [i \in DOMAIN d |-> IF d[i][1] = k THEN <<k, v>> ELSE d[i]]
    ELSE Append(d, <<k, v>>)
Binds(d, k, v) == Has(d, k) /\ Get(d, k) = v

\* {url: name for name, url in image_cache.items()}: the last item of a URL wins.
Inverse(d) ==
    [u \in Values(d) |->
        d[CHOOSE i \in DOMAIN d :
            /\ d[i][2] = u
            /\ \A j \in DOMAIN d : d[j][2] = u => j <= i][1]]

\* dict.get(key) with None for a missing key, and dict[key] = value.
None == <<"None">>
Lookup(f, k) == IF k \in DOMAIN f THEN f[k] ELSE None
Assign(f, k, v) == [x \in DOMAIN f \cup {k} |-> IF x = k THEN v ELSE f[x]]
Remove(f, k) == [x \in DOMAIN f \ {k} |-> f[x]]

\* choose_filename: the first candidate base+ext, base_2+ext, base_3+ext, ...
\* without a conflict.
RECURSIVE Candidate(_, _, _, _, _, _, _)
Candidate(candidate, counter, base, ext, url, image_cache, reserved) ==
    LET conflict_cache == Has(image_cache, candidate) /\ Get(image_cache, candidate) # url
        conflict_reserved == candidate \in reserved /\ ~Has(image_cache, candidate)
    IN IF conflict_cache \/ conflict_reserved
       THEN Candidate(base \o <<"_">> \o ToStr(counter) \o ext, counter + 1,
                      base, ext, url, image_cache, reserved)
       ELSE candidate

\* choose_filename with its counter starting at 3.
choose_filename_CounterFromThree(base, ext, url, image_cache, reserved) ==
    Candidate(base \o ext, 3, base, ext, url, image_cache, reserved)

\* choose_filename without its collision loop.
choose_filename_Unchecked(base, ext, url, image_cache, reserved) == base \o ext

choose_filename(base, ext, url, image_cache, reserved) ==
    Candidate(base \o ext, 2, base, ext, url, image_cache, reserved)

(***************************************************************************)
(* Inputs: titles, URLs, and the cache file and asset store found on disk. *)
(***************************************************************************)
EmptyUrl == <<>>
U1 == <<"h", ":", "/", "/", "x", "/", "p", ".", "j">>
U2 == <<"h", ":", "/", "/", "x", "/", "q", ".", "j">>
Urls == {U1, U2}
UrlChoices == Urls \cup {EmptyUrl}
Titles == {<<"a">>, <<"a", " ", "2">>}

\* File names the cache file and the asset store may hold at run start.
InitNames == {<<"a", ".", "j">>, <<"a", "_", "2", ".", "j">>}

\* Content of an asset file: the body served for a URL, whole or cut short, or
\* bytes of unknown origin.
Img(u) == [of |-> u, whole |-> TRUE]
Partial(u) == [of |-> u, whole |-> FALSE]
Orphan == [of |-> <<>>, whole |-> TRUE]
NoFile == [of |-> <<>>, whole |-> FALSE]

\* Every dict with keys among names and values among Urls, in every item order.
RECURSIVE Dicts(_)
Dicts(names) ==
    {<<>>} \cup
    UNION {{<<<<n, u>>>> \o d : u \in Urls, d \in Dicts(names \ {n})} : n \in names}

\* State of cache/image_cache.json on disk.
Absent == [kind |-> "absent", items |-> <<>>]
Blank == [kind |-> "blank", items |-> <<>>]
Invalid == [kind |-> "invalid", items |-> <<>>]
Json(d) == [kind |-> "json", items |-> d]
InitCacheFiles == {Absent, Invalid} \cup {Json(d) : d \in Dicts(InitNames)}

\* load_json: an empty dict for a missing, blank or invalid file.
load_json(file) == IF file.kind = "json" THEN file.items ELSE <<>>

\* Posters the manifest may continue with when used entries are already read.
ImageLists(k) == UNION {[1..j -> UrlChoices] : j \in 1..k}
Posters(k) == [title : Titles, images : ImageLists(k)]

\* Titles whose cleaned form is empty (empty, whitespace only, illegal characters
\* and underscores only) beside a plain one, and a URL whose path has no stem.
DeriveTitles == {<<>>, <<" ">>, <<"/", "_">>, <<"a">>}
U0 == <<"h", ":", "/", "/", "x", "/">>
DeriveUrls == {U0, U1}
DerivePosters(k) ==
    [title : DeriveTitles,
     images : UNION {[1..j -> DeriveUrls \cup {EmptyUrl}] : j \in 1..k}]

\* A title and a URL that the deriver turns into the name a.j.part, which is the
\* temp path of a.j, the name of title "a" with U1.
PartTitles == {<<"a">>, <<"a", ".", "j">>}
U3 == <<"h", ":", "/", "/", "x", "/", "q", ".", "p", "a", "r", "t">>
PartUrls == {U1, U3}
PartNames == {<<"a", ".", "j">>, <<"a", ".", "j">> \o PartSuffix}
PartPosters(k) ==
    [title : PartTitles,
     images : UNION {[1..j -> PartUrls \cup {EmptyUrl}] : j \in 1..k}]

\* Every dict with keys among names and values among urls, in every item order.
RECURSIVE DictsOf(_, _)
DictsOf(names, urls) ==
    {<<>>} \cup
    UNION {{<<<<n, u>>>> \o d : u \in urls, d \in DictsOf(names \ {n}, urls)} :
              n \in names}

\* Cache files over these names as a run of the program leaves them: no URL
\* under two names.
PartCacheFiles ==
    {Absent} \cup
    {Json(d) : d \in {e \in DictsOf(PartNames, PartUrls) :
                          \A i, j \in DOMAIN e : e[i][2] = e[j][2] => i = j}}

\* Number of image entries of a sequence of posters.
RECURSIVE Entries(_)
Entries(ps) == IF ps = <<>> THEN 0 ELSE Len(Head(ps).images) + Entries(Tail(ps))

\* download_image's retries parameter.
Retries == 3

VARIABLES
    manifestPresent,  \* META_CACHE_PATH.exists()
    meta,             \* posters of the manifest read so far, in order
    cacheFile,        \* cache/image_cache.json on disk
    files,            \* assets/: path -> content, for the files that exist
    image_cache, url_to_filename, reserved_names,
    downloaded, skipped, renamed,
    pc,               \* position in main / download_image
    error,            \* exception that ended the run, "none" if none
    pidx, idx,        \* current poster (1-based in meta) and image index (0-based)
    target_filename,
    attempt,
    \* history of the run, not program state
    run,              \* 1 for the first run, 2 for a re-run
    startFile,        \* cacheFile when the run started
    startStore,       \* files when the run started
    fetches,          \* download_image calls of this run
    failed,           \* download_image calls of this run that raised
    resolved,         \* <<url, target_filename>> of the pairs resolved in this run
    stale,            \* the current pair found a cache entry of its URL without file
    recovered,        \* <<url, target_filename>> of such pairs whose fetch succeeded
    lastError,        \* how the previous attempt of the current call failed
    storeBefore       \* the asset store when the current call began

vars == <<manifestPresent, meta, cacheFile, files, image_cache, url_to_filename,
          reserved_names, downloaded, skipped, renamed, pc, error, pidx, idx,
          target_filename, attempt, run, startFile, startStore, fetches, failed, resolved,
          stale, recovered, lastError, storeBefore>>

input == <<manifestPresent, meta>>
disk == <<cacheFile, files>>
books == <<image_cache, url_to_filename, reserved_names>>
counts == <<downloaded, skipped, renamed>>
call == <<attempt, lastError, storeBefore>>
history == <<run, startFile, startStore>>
trail == <<resolved, stale, recovered>>

\* Content at a path of the asset store, NoFile when there is no file.
Exists(fs, path) == path \in DOMAIN fs
FileAt(fs, path) == IF Exists(fs, path) THEN fs[path] ELSE NoFile

poster == meta[pidx]
images == poster.images
url == images[idx + 1]
\* The temp path taken to be the destination itself.
TempPath_InPlace(destination) == destination

TempPath(destination) == destination \o PartSuffix

\* The state when the process starts: a cache file among cacheFiles and an
\* asset store with files among names, each holding the image its cache entry
\* names.
InitFrom(cacheFiles, names) ==
    /\ manifestPresent \in BOOLEAN
    /\ meta = <<>>
    /\ cacheFile \in cacheFiles
    /\ \E present \in SUBSET names :
          files = [n \in present |->
                      IF Has(load_json(cacheFile), n)
                      THEN Img(Get(load_json(cacheFile), n))
                      ELSE Orphan]
    /\ image_cache = <<>>
    /\ url_to_filename = [u \in {} |-> None]
    /\ reserved_names = {}
    /\ downloaded = 0 /\ skipped = 0 /\ renamed = 0
    /\ pc = "main"
    /\ error = "none"
    /\ pidx = 0 /\ idx = 0
    /\ target_filename = None
    /\ attempt = 0
    /\ run = 1
    /\ startFile = cacheFile
    /\ startStore = files
    /\ fetches = 0 /\ failed = 0
    /\ resolved = {}
    /\ stale = FALSE
    /\ recovered = {}
    /\ lastError = "none"
    /\ storeBefore = [n \in {} |-> NoFile]

Init == InitFrom(InitCacheFiles, InitNames)

\* main, lines 117-118: the manifest is missing.
NoManifest ==
    /\ pc = "main"
    /\ ~manifestPresent
    /\ pc' = "error"
    /\ error' = "FileNotFoundError"
    /\ UNCHANGED <<input, disk, books, counts, pidx, idx, target_filename, call,
                   history, fetches, failed, trail>>

\* main, lines 120-132: load the cache and build the index and the reserved set.
Startup ==
    /\ pc = "main"
    /\ manifestPresent
    /\ image_cache' = load_json(cacheFile)
    /\ url_to_filename' = Inverse(load_json(cacheFile))
    /\ reserved_names' = Keys(load_json(cacheFile))
    /\ downloaded' = 0 /\ skipped' = 0 /\ renamed' = 0
    /\ pc' = "posters"
    /\ UNCHANGED <<input, disk, error, pidx, idx, target_filename, call, history,
                   fetches, failed, trail>>

\* for poster in posters: the next poster, one of choices, of a manifest of at
\* most k entries.
AppendPoster(choices, k) ==
    /\ pc = "posters"
    /\ run = 1
    /\ Entries(meta) < k
    /\ \E p \in choices : meta' = Append(meta, p)
    /\ pidx' = pidx + 1
    /\ idx' = 0
    /\ pc' = "images"
    /\ UNCHANGED <<manifestPresent, disk, books, counts, error, target_filename,
                   call, history, fetches, failed, trail>>

NextPosterWithin(k) == AppendPoster(Posters(k - Entries(meta)), k)

NextPoster == NextPosterWithin(MaxPairs)

\* for idx, url in enumerate(images): the poster has no further image.
EndImages ==
    /\ pc = "images"
    /\ idx = Len(images)
    /\ pc' = "posters"
    /\ UNCHANGED <<input, disk, books, counts, error, pidx, idx, target_filename,
                   call, history, fetches, failed, trail>>

\* lines 137-138: an empty URL is passed over.
SkipEmpty ==
    /\ pc = "images"
    /\ idx < Len(images)
    /\ url = EmptyUrl
    /\ idx' = idx + 1
    /\ UNCHANGED <<input, disk, books, counts, pc, error, pidx, target_filename,
                   call, history, fetches, failed, trail>>

\* The cache holds an entry of the current URL whose asset file is missing.
StaleEntry ==
    \E n \in Keys(image_cache) : Get(image_cache, n) = url /\ ~Exists(files, n)

\* lines 140-142: derive the base name and resolve the target filename.
Resolve ==
    /\ pc = "images"
    /\ idx < Len(images)
    /\ url # EmptyUrl
    /\ LET be == filename_from_title(poster.title, url, idx, Len(images))
           t == choose_filename(be[1], be[2], url, image_cache, reserved_names)
       IN /\ target_filename' = t
          /\ resolved' = resolved \cup {<<url, t>>}
    /\ stale' = StaleEntry
    /\ recovered' = recovered
    /\ pc' = "resolved"
    /\ UNCHANGED <<input, disk, books, counts, error, pidx, idx, call, history,
                   fetches, failed>>

\* The skip test without looking at the disk.
SkipCondition_CacheOnly ==
    /\ Has(image_cache, target_filename)
    /\ Get(image_cache, target_filename) = url

\* lines 145-149: the cache binds the target to this URL and the file exists.
SkipCondition ==
    /\ Has(image_cache, target_filename)
    /\ Get(image_cache, target_filename) = url
    /\ Exists(files, target_filename)

\* line 154: the name the index holds for this URL.
existing_name == Lookup(url_to_filename, url)

\* line 155: the URL is indexed under another name.
OtherName == existing_name # None /\ existing_name # target_filename

\* The skip that also gives up the reservation of the name.
Skip_Unreserves ==
    /\ pc = "resolved"
    /\ SkipCondition
    /\ skipped' = skipped + 1
    /\ idx' = idx + 1
    /\ pc' = "images"
    /\ reserved_names' = reserved_names \ {target_filename}
    /\ UNCHANGED <<input, disk, image_cache, url_to_filename, downloaded, renamed,
                   error, pidx, target_filename, call, history, fetches, failed, trail>>

\* lines 150-151: skip.
Skip ==
    /\ pc = "resolved"
    /\ SkipCondition
    /\ skipped' = skipped + 1
    /\ idx' = idx + 1
    /\ pc' = "images"
    /\ UNCHANGED <<input, disk, books, downloaded, renamed, error, pidx,
                   target_filename, call, history, fetches, failed, trail>>

\* Rename that installs the new name and leaves the old key in the cache.
Rename_KeepsOldKey ==
    /\ pc = "resolved"
    /\ ~SkipCondition
    /\ OtherName
    /\ Exists(files, existing_name)
    /\ files' = Assign(Remove(files, existing_name), target_filename,
                       files[existing_name])
    /\ IF Has(image_cache, existing_name)
       THEN /\ image_cache' = Put(image_cache, target_filename, url)
            /\ reserved_names' = (reserved_names \ {existing_name}) \cup {target_filename}
            /\ url_to_filename' = Assign(url_to_filename, url, target_filename)
            /\ renamed' = renamed + 1
            /\ idx' = idx + 1
            /\ pc' = "images"
            /\ error' = error
       ELSE /\ pc' = "error"
            /\ error' = "KeyError"
            /\ UNCHANGED <<books, renamed, idx>>
    /\ UNCHANGED <<input, cacheFile, downloaded, skipped, pidx, target_filename,
                   call, history, fetches, failed, trail>>

\* lines 156-167: move the file of the URL to its new name.  The file is moved
\* before the old key is deleted, and deleting a key that is gone raises KeyError.
Rename ==
    /\ pc = "resolved"
    /\ ~SkipCondition
    /\ OtherName
    /\ Exists(files, existing_name)
    /\ files' = Assign(Remove(files, existing_name), target_filename,
                       files[existing_name])
    /\ IF Has(image_cache, existing_name)
       THEN /\ image_cache' = Put(Del(image_cache, existing_name), target_filename, url)
            /\ reserved_names' = (reserved_names \ {existing_name}) \cup {target_filename}
            /\ url_to_filename' = Assign(url_to_filename, url, target_filename)
            /\ renamed' = renamed + 1
            /\ idx' = idx + 1
            /\ pc' = "images"
            /\ error' = error
       ELSE /\ pc' = "error"
            /\ error' = "KeyError"
            /\ UNCHANGED <<books, renamed, idx>>
    /\ UNCHANGED <<input, cacheFile, downloaded, skipped, pidx, target_filename,
                   call, history, fetches, failed, trail>>

\* The call download_image(url, destination) of line 175 begins.
EnterDownload ==
    /\ pc' = "download"
    /\ attempt' = 1
    /\ lastError' = "none"
    /\ storeBefore' = files
    /\ fetches' = fetches + 1

\* download_image has returned or raised: its locals are gone.
LeaveDownload ==
    /\ attempt' = 0
    /\ lastError' = "none"
    /\ storeBefore' = [n \in {} |-> NoFile]

\* The stale drop without unreserving the name.
DropStale_KeepsReserved ==
    /\ pc = "resolved"
    /\ ~SkipCondition
    /\ OtherName
    /\ ~Exists(files, existing_name)
    /\ IF Has(image_cache, existing_name)
       THEN /\ image_cache' = Del(image_cache, existing_name)
            /\ reserved_names' = reserved_names
            /\ EnterDownload
            /\ error' = error
       ELSE /\ pc' = "error"
            /\ error' = "KeyError"
            /\ UNCHANGED <<image_cache, reserved_names, call, fetches>>
    /\ UNCHANGED <<input, disk, url_to_filename, counts, pidx, idx, target_filename,
                   history, failed, trail>>

\* lines 168-175: the indexed file is missing: drop the stale entry, then fetch.
DropStale ==
    /\ pc = "resolved"
    /\ ~SkipCondition
    /\ OtherName
    /\ ~Exists(files, existing_name)
    /\ IF Has(image_cache, existing_name)
       THEN /\ image_cache' = Del(image_cache, existing_name)
            /\ reserved_names' = reserved_names \ {existing_name}
            /\ EnterDownload
            /\ error' = error
       ELSE /\ pc' = "error"
            /\ error' = "KeyError"
            /\ UNCHANGED <<image_cache, reserved_names, call, fetches>>
    /\ UNCHANGED <<input, disk, url_to_filename, counts, pidx, idx, target_filename,
                   history, failed, trail>>

\* lines 173-175: no other name is indexed for the URL: fetch.
Fetch ==
    /\ pc = "resolved"
    /\ ~SkipCondition
    /\ ~OtherName
    /\ EnterDownload
    /\ UNCHANGED <<input, disk, books, counts, error, pidx, idx, target_filename,
                   history, failed, trail>>

\* The asset store after download_image(url, destination) returned: the temp file,
\* holding the whole body, has replaced the destination.
Downloaded(fs, destination, u) ==
    Assign(Remove(fs, TempPath(destination)), destination, Img(u))

\* The asset store after download_image raised: every failed attempt removed the
\* temp file and nothing else.
Abandoned(fs, destination) == Remove(fs, TempPath(destination))

\* download_image, lines 72-89, as one step: some attempt succeeds.
DownloadReturns ==
    /\ pc = "download"
    /\ files' = Downloaded(files, target_filename, url)
    /\ pc' = "fetched"
    /\ UNCHANGED <<input, cacheFile, books, counts, error, pidx, idx,
                   target_filename, call, history, fetches, failed, trail>>

\* download_image, lines 72-89, as one step: every attempt fails.
DownloadRaises ==
    /\ pc = "download"
    /\ files' = Abandoned(files, target_filename)
    /\ pc' = "raised"
    /\ UNCHANGED <<input, cacheFile, books, counts, error, pidx, idx,
                   target_filename, call, history, fetches, failed, trail>>

\* The handler without the unlink of the temp file.
Handler_KeepsTemp(kind) ==
    /\ files' = files
    /\ lastError' = kind
    /\ IF attempt = Retries
       THEN pc' = "raised" /\ attempt' = attempt
       ELSE pc' = "download" /\ attempt' = attempt + 1

\* download_image, lines 85-89: the handler of a failed attempt removes the temp
\* file, raises after the last attempt and otherwise lets the loop go on.
Handler(kind) ==
    /\ files' = Remove(files, TempPath(target_filename))
    /\ lastError' = kind
    /\ IF attempt = Retries
       THEN pc' = "raised" /\ attempt' = attempt
       ELSE pc' = "download" /\ attempt' = attempt + 1

\* Ways an attempt can fail: a transport error or a retryable status the session
\* gave up on, and a status that no retry can cure (a 4xx outside the retry set).
ErrorKinds == {"transient", "terminal"}

\* lines 77-78: session.get or raise_for_status raises.
GetFails ==
    /\ pc = "download"
    /\ \E kind \in ErrorKinds : Handler(kind)
    /\ UNCHANGED <<input, cacheFile, books, counts, error, pidx, idx,
                   target_filename, storeBefore, history, fetches, failed, trail>>

\* line 79: the response is good and the temp file is opened for writing.
OpenTemp ==
    /\ pc = "download"
    /\ files' = Assign(files, TempPath(target_filename), Partial(url))
    /\ pc' = "streaming"
    /\ UNCHANGED <<input, cacheFile, books, counts, error, pidx, idx,
                   target_filename, call, history, fetches, failed, trail>>

\* lines 80-82: the stream breaks before the body is complete.
StreamFails ==
    /\ pc = "streaming"
    /\ Handler("transient")
    /\ UNCHANGED <<input, cacheFile, books, counts, error, pidx, idx,
                   target_filename, storeBefore, history, fetches, failed, trail>>

\* lines 80-84: the body is complete; the temp file replaces the destination.
Replace ==
    /\ pc = "streaming"
    /\ files' = Downloaded(files, target_filename, url)
    /\ pc' = "fetched"
    /\ UNCHANGED <<input, cacheFile, books, counts, error, pidx, idx,
                   target_filename, call, history, fetches, failed, trail>>

\* lines 180-184: the fetch succeeded: install the name.
Install ==
    /\ pc = "fetched"
    /\ image_cache' = Put(image_cache, target_filename, url)
    /\ url_to_filename' = Assign(url_to_filename, url, target_filename)
    /\ reserved_names' = reserved_names \cup {target_filename}
    /\ downloaded' = downloaded + 1
    /\ idx' = idx + 1
    /\ pc' = "images"
    /\ LeaveDownload
    /\ recovered' = IF stale THEN recovered \cup {<<url, target_filename>>}
                    ELSE recovered
    /\ UNCHANGED <<input, disk, skipped, renamed, error, pidx, target_filename,
                   history, fetches, failed, resolved, stale>>

\* lines 176-178: the fetch failed: report it and go on with the next URL.
FetchFailed ==
    /\ pc = "raised"
    /\ failed' = failed + 1
    /\ idx' = idx + 1
    /\ pc' = "images"
    /\ LeaveDownload
    /\ UNCHANGED <<input, disk, books, counts, error, pidx, target_filename,
                   history, fetches, trail>>

\* The manifest has no further poster; line 186 calls save_json, whose write_text
\* (line 32) opens the cache file for writing, which empties it.
SaveOpen ==
    /\ pc = "posters"
    /\ pidx = Len(meta)
    /\ cacheFile' = Blank
    /\ pc' = "writing"
    /\ UNCHANGED <<input, files, books, counts, error, pidx, idx, target_filename,
                   call, history, fetches, failed, trail>>

\* save_json, line 32, and lines 187-191: the payload is written; the summary.
SaveWrite ==
    /\ pc = "writing"
    /\ cacheFile' = Json(image_cache)
    /\ pc' = "done"
    /\ UNCHANGED <<input, files, books, counts, error, pidx, idx, target_filename,
                   call, history, fetches, failed, trail>>

\* main without the body of download_image.
Reconcile ==
    \/ NoManifest \/ Startup
    \/ EndImages \/ SkipEmpty \/ Resolve
    \/ Skip \/ Rename \/ DropStale \/ Fetch
    \/ Install \/ FetchFailed
    \/ SaveOpen \/ SaveWrite

\* The run, each call of download_image taken as one step.
Next == Reconcile \/ NextPoster \/ DownloadReturns \/ DownloadRaises

Spec == Init /\ [][Next]_vars

\* The run, download_image followed attempt by attempt.
FetchNextPoster == NextPosterWithin(MaxFetchPairs)

NextFetch ==
    \/ Reconcile \/ FetchNextPoster
    \/ GetFails \/ OpenTemp \/ StreamFails \/ Replace

SpecFetch == Init /\ [][NextFetch]_vars

\* The run over manifests that exercise the filename deriver.
DeriveNextPoster ==
    AppendPoster(DerivePosters(MaxDerivePairs - Entries(meta)), MaxDerivePairs)

NextDerive == Reconcile \/ DeriveNextPoster \/ DownloadReturns \/ DownloadRaises

SpecDerive == Init /\ [][NextDerive]_vars

\* download_image, lines 72-89: the steps of a call.
download_image == GetFails \/ OpenTemp \/ StreamFails \/ Replace

\* The same run where a call of download_image keeps running: it is sequential
\* code, every request has a timeout (line 77) and every body an end, so an
\* attempt that has started fails or completes.
SpecFetchLive == SpecFetch /\ WF_vars(download_image)

\* The run, download_image followed attempt by attempt, over asset names of
\* which one is the temp path of another.
InitPart == InitFrom(PartCacheFiles, PartNames)

PartNextPoster ==
    AppendPoster(PartPosters(MaxPartPairs - Entries(meta)), MaxPartPairs)

NextPart ==
    \/ Reconcile \/ PartNextPoster
    \/ GetFails \/ OpenTemp \/ StreamFails \/ Replace

SpecPart == InitPart /\ [][NextPart]_vars

(***************************************************************************)
(* A second run over the same manifest, after a run whose fetches all      *)
(* succeeded: a new process, the disk as the first run left it.            *)
(***************************************************************************)
Rerun ==
    /\ pc = "done"
    /\ run = 1
    /\ failed = 0
    /\ run' = 2
    /\ startFile' = cacheFile
    /\ startStore' = files
    /\ image_cache' = <<>>
    /\ url_to_filename' = [u \in {} |-> None]
    /\ reserved_names' = {}
    /\ downloaded' = 0 /\ skipped' = 0 /\ renamed' = 0
    /\ pc' = "main"
    /\ pidx' = 0 /\ idx' = 0
    /\ target_filename' = None
    /\ fetches' = 0
    /\ resolved' = {}
    /\ stale' = FALSE
    /\ recovered' = {}
    /\ UNCHANGED <<input, disk, error, call, failed>>

\* for poster in posters, in the second run: the next poster of the same manifest.
ReplayPoster ==
    /\ pc = "posters"
    /\ run = 2
    /\ pidx < Len(meta)
    /\ pidx' = pidx + 1
    /\ idx' = 0
    /\ pc' = "images"
    /\ UNCHANGED <<input, disk, books, counts, error, target_filename, call,
                   history, fetches, failed, trail>>

NextRerun == Next \/ Rerun \/ ReplayPoster

SpecRerun == Init /\ [][NextRerun]_vars

(***************************************************************************)
(* Properties.                                                             *)
(***************************************************************************)
NoKeyTwice(d) == \A i, j \in DOMAIN d : d[i][1] = d[j][1] => i = j
OneNamePerUrl(d) == \A i, j \in DOMAIN d : d[i][2] = d[j][2] => i = j

\* The first candidate of the pair being processed: base + ext.
FirstCandidate ==
    LET be == filename_from_title(poster.title, url, idx, Len(images))
    IN be[1] \o be[2]

\* download_image has been called for the current pair and main has not yet
\* acted on its outcome.
InCall == pc \in {"download", "streaming", "fetched", "raised"}

\* C1 (Uniqueness): the cache and the persisted cache file never hold a filename
\* twice; from the moment choose_filename has returned until the pair is done,
\* the target filename is either not a key of the cache or bound to the URL being
\* processed; and no step changes the URL a filename is bound to, so that
\* installing target_filename -> url never replaces another URL's entry.
C1_Uniqueness ==
    [][ /\ NoKeyTwice(image_cache')
        /\ NoKeyTwice(cacheFile'.items)
        /\ (pc' = "resolved" \/ InCall') =>
              (Has(image_cache', target_filename') =>
                  Get(image_cache', target_filename') = url')
        /\ \A n \in Keys(image_cache) \cap Keys(image_cache') :
              Get(image_cache', n) = Get(image_cache, n) ]_vars

\* C1 witness: a fetched file is about to be installed under a counter name,
\* because the first candidate is bound to another URL.
C1_Witness ==
    /\ pc = "fetched"
    /\ target_filename # FirstCandidate
    /\ Has(image_cache, FirstCandidate)
    /\ Get(image_cache, FirstCandidate) # url

\* The non-empty URLs of the manifest, one per pair, in manifest order.
RECURSIVE PairUrls(_)
PairUrls(ps) ==
    IF ps = <<>> THEN <<>>
    ELSE SelectSeq(Head(ps).images, LAMBDA u : u # EmptyUrl) \o PairUrls(Tail(ps))

\* No URL occurs twice in the manifest.
DistinctUrls == \A i, j \in DOMAIN PairUrls(meta) :
                    PairUrls(meta)[i] = PairUrls(meta)[j] => i = j

\* C2 (Stability): in a second run over the same manifest, after a run whose
\* fetches all succeeded, nothing is fetched and nothing is renamed, and the run
\* ends with the asset store and the persisted cache as the first run left them.
C2_Stability ==
    run = 2 =>
        /\ fetches = 0 /\ downloaded = 0 /\ renamed = 0
        /\ error = "none"
        /\ pc = "done" => (files = startStore /\ cacheFile = startFile)

\* C3 (Partial-failure tolerance): a run whose manifest is present never ends
\* with an error, whatever the initial cache, the asset store and the fetches
\* that fail: the run ends with an error only when the manifest is missing.
C3_OnlyMissingManifestFails == (pc = "error") => ~manifestPresent

\* C8 (Resolver distinctness): the filenames resolved in one run for two
\* distinct URLs differ, whatever happened to the pair processed first.
C8_DistinctUrlsDistinctNames ==
    \A r1, r2 \in resolved : r1[1] # r2[1] => r1[2] # r2[2]

\* C9 (Crash safety of the cache file): at every point of the run, hence
\* whenever it may be killed, the cache file on disk holds either its content
\* from run start or the complete final cache, and it differs from its content
\* at run start only once every pair has been processed.
C9_CacheFileWhole ==
    /\ cacheFile = startFile \/ cacheFile = Json(image_cache)
    /\ cacheFile # startFile => pc = "done"

\* Every step of download_image leaves the asset store as if the call were one
\* step: after a return it is Downloaded, after a raise it is Abandoned.
DownloadAsOneStep ==
    /\ pc = "fetched" => files = Downloaded(storeBefore, target_filename, url)
    /\ pc = "raised" => files = Abandoned(storeBefore, target_filename)

\* C4 (Atomic fetch): from the call of download_image(url, destination) until
\* main acts on its outcome, the destination holds either what it held before
\* the call (nothing, if it did not exist) or the whole body of the URL, never a
\* partial body; after a raise it holds what it held before; after a return it
\* holds the whole body and no temp file is left.
C4_AtomicFetch ==
    InCall =>
        /\ FileAt(files, target_filename) \in
              {FileAt(storeBefore, target_filename), Img(url)}
        /\ pc = "raised" =>
              FileAt(files, target_filename) = FileAt(storeBefore, target_filename)
        /\ pc = "fetched" =>
              /\ FileAt(files, target_filename) = Img(url)
              /\ ~Exists(files, TempPath(target_filename))

\* C4 witness: an attempt succeeded after a failed one and replaced a file
\* that held something else.
C4_Witness ==
    /\ pc = "fetched"
    /\ attempt > 1
    /\ Exists(storeBefore, target_filename)
    /\ storeBefore[target_filename] # Img(url)
    /\ files[target_filename] = Img(url)

\* C10 (Non-retryable fetch failure): no attempt of download_image follows an
\* attempt that failed with a terminal error; the call raises at once.
C10_TerminalNotRetried ==
    ~(pc \in {"download", "streaming"} /\ attempt > 1 /\ lastError = "terminal")

\* The pair being processed finds the cache binding old_name, another name
\* than the target, to its URL, and assets/old_name exists.
RenamePremise(old_name) ==
    /\ pc = "resolved"
    /\ Binds(image_cache, old_name, url)
    /\ old_name # target_filename
    /\ Exists(files, old_name)

\* The step moves assets/old_name to the target, removes the old key, installs
\* target_filename -> url, counts a rename and calls no download.
RenameEffect(old_name) ==
    /\ files' = Assign(Remove(files, old_name), target_filename, files[old_name])
    /\ ~Has(image_cache', old_name)
    /\ Binds(image_cache', target_filename, url)
    /\ renamed' = renamed + 1
    /\ fetches' = fetches /\ downloaded' = downloaded /\ skipped' = skipped
    /\ pc' = "images"

\* C5 (Rename correctness), as claimed: whenever the cache maps old_name to the
\* URL of the pair, old_name differs from the target and assets/old_name exists,
\* the pair is renamed: the file moved, the old key removed, the target
\* installed, renamed counted, nothing fetched.
C5_RenameAnyCachedName ==
    [][ \A old_name \in Keys(image_cache) :
            RenamePremise(old_name) => RenameEffect(old_name) ]_vars

\* C5, amended: the same, for a run whose cache at run start bound no URL to two
\* filenames.
C5_RenameCorrect ==
    [][ OneNamePerUrl(load_json(startFile)) =>
            \A old_name \in Keys(image_cache) :
                RenamePremise(old_name) => RenameEffect(old_name) ]_vars

\* C5 witness: the first pair of such a run has been renamed, nothing fetched.
C5_Witness ==
    /\ OneNamePerUrl(load_json(startFile))
    /\ pc = "images"
    /\ renamed = 1 /\ fetches = 0 /\ skipped = 0
    /\ Has(image_cache, target_filename)
    /\ Exists(files, target_filename)
    /\ Keys(load_json(startFile)) \ Keys(image_cache) # {}

\* The pair resolved while the cache held an entry of its URL without file is
\* neither skipped nor renamed: download_image is called for it.
StaleIsFetched ==
    (pc = "resolved" /\ StaleEntry) =>
        /\ pc' = "download"
        /\ fetches' = fetches + 1
        /\ skipped' = skipped /\ renamed' = renamed

\* The cache maps name to u, the file is there, and no other key maps to u.
SoleEntry(cache, fs, name, u) ==
    /\ Binds(cache, name, u)
    /\ Exists(fs, name)
    /\ \A n \in Keys(cache) : Get(cache, n) = u => n = name

\* C6 (Stale-entry recovery), as claimed: a pair processed while the cache holds
\* an entry of its URL without file is fetched, not skipped or renamed; and if
\* the fetch succeeds, the run ends with the cache mapping the resolved target
\* to the URL, the file on disk and no other key mapping to the URL.
C6_StaleRecoveredAtRunEnd ==
    [][ /\ StaleIsFetched
        /\ pc' = "done" =>
              \A r \in recovered' : SoleEntry(image_cache', files', r[2], r[1]) ]_vars

\* C6, amended: in a run whose cache at run start bound no URL to two filenames,
\* such a pair is fetched, not skipped or renamed; if the fetch succeeds, the
\* pair ends with the cache mapping the resolved target to the URL, the file on
\* disk holding the URL's body and no other key mapping to the URL.  (What the
\* pairs after it do to that entry and its file is not part of the statement.)
C6_StaleRecovery ==
    [][ OneNamePerUrl(load_json(startFile)) =>
            /\ StaleIsFetched
            /\ (pc = "fetched" /\ stale) =>
                  /\ SoleEntry(image_cache', files', target_filename, url)
                  /\ files'[target_filename] = Img(url)
                  /\ <<url, target_filename>> \in recovered' ]_vars

\* C6 witness: in such a run a stale entry under another name than the target
\* was dropped, the URL fetched and installed under the target.
C6_Witness ==
    /\ OneNamePerUrl(load_json(startFile))
    /\ pc = "images"
    /\ downloaded = 1
    /\ \E r \in recovered :
          /\ SoleEntry(image_cache, files, r[2], r[1])
          /\ ~Has(load_json(startFile), r[2])
          /\ r[1] \in Values(load_json(startFile))

\* A completed cold run: empty cache, empty asset store, no URL twice in the
\* manifest, every fetch succeeded.
ColdRunDone ==
    /\ pc = "done"
    /\ load_json(startFile) = <<>>
    /\ DOMAIN startStore = {}
    /\ DistinctUrls
    /\ failed = 0

\* The counts of such a run and the cache it persists: one entry per URL of the
\* manifest, each with its file, holding the URL's body.
ColdRunResult ==
    /\ downloaded = Len(PairUrls(meta))
    /\ renamed = 0 /\ skipped = 0
    /\ cacheFile = Json(image_cache)
    /\ Len(image_cache) = Len(PairUrls(meta))
    /\ \A i \in DOMAIN PairUrls(meta) :
          \E n \in Keys(image_cache) :
              SoleEntry(image_cache, files, n, PairUrls(meta)[i]) /\ files[n] = Img(PairUrls(meta)[i])

\* <sanitized title>_<i> and the extension of the URL's path.
NumberedBase(title, i) == sanitize_title(title) \o <<"_">> \o ToStr(i)
UrlSuffix(u) == PathSuffix(UrlPath(u))
UrlExt(u) == IF UrlSuffix(u) = <<>> THEN DefaultExt ELSE UrlSuffix(u)

\* The k-th name choose_filename tries: base+ext, then base_2+ext, base_3+ext, ...
NthCandidate(base, ext, k) ==
    IF k = 1 THEN base \o ext ELSE base \o <<"_">> \o ToStr(k) \o ext

\* The non-empty entries of the posters with more than one image: <<poster, i>>.
SiblingPairs ==
    {pi \in (DOMAIN meta) \X (1..MaxPairs + 1) :
        /\ Len(meta[pi[1]].images) > 1
        /\ pi[2] \in DOMAIN meta[pi[1]].images
        /\ meta[pi[1]].images[pi[2]] # EmptyUrl}

\* C7 (Cold run), as claimed: a cold run ends with downloaded = number of
\* non-empty URLs, renamed = 0, skipped = 0 and one cache entry per URL with its
\* file; and the i-th image of a poster with more than one image is named
\* <sanitized title>_<i> with the URL's extension.
C7_ColdRunPlainNames ==
    ColdRunDone =>
        /\ ColdRunResult
        /\ \A pi \in SiblingPairs :
              LET p == meta[pi[1]]
                  u == p.images[pi[2]]
              IN Binds(image_cache, NumberedBase(p.title, pi[2]) \o UrlSuffix(u), u)

\* What a cold run does when no resolved name is the temp path of another (it
\* holds in Spec, not in SpecPart): the same counts and cache; the i-th image of
\* a poster with more than one image is named <sanitized title>_<i> with the
\* extension of the URL's path (.jpg if it has none), or, when earlier pairs of
\* the run took that name and the counter names before it,
\* <sanitized title>_<i>_<k> for the first counter k >= 2 whose name is free.
C7_ColdRun ==
    ColdRunDone =>
        /\ ColdRunResult
        /\ \A pi \in SiblingPairs :
              LET p == meta[pi[1]]
                  u == p.images[pi[2]]
                  base == NumberedBase(p.title, pi[2])
              IN \E k \in 1..Len(image_cache) :
                    /\ Binds(image_cache, NthCandidate(base, UrlExt(u), k), u)
                    /\ \A j \in 1..(k - 1) :
                          /\ Has(image_cache, NthCandidate(base, UrlExt(u), j))
                          /\ Get(image_cache, NthCandidate(base, UrlExt(u), j)) # u

\* Such a cold run is done in which a poster with two images got its second
\* image under a counter name, the plain name being taken.
C7_Witness ==
    /\ ColdRunDone
    /\ \E pi \in SiblingPairs :
          LET p == meta[pi[1]]
              u == p.images[pi[2]]
          IN Binds(image_cache,
                   NthCandidate(NumberedBase(p.title, pi[2]), UrlExt(u), 2), u)

\* The base name filename_from_title derives for the pair being processed.
DerivedBase == filename_from_title(poster.title, url, idx, Len(images))[1]

\* C11 (Deriver fallback): for a title whose cleaned form is empty, the base name
\* is the cleaned stem of the URL's path when that is not empty and the literal
\* "image" only when the cleaned stem is empty too, followed by _<index+1> when
\* the poster has more than one image.
C11_DeriverFallback ==
    (pc = "resolved" /\ cleaned(poster.title) = <<>>) =>
        LET stem == cleaned(PathStem(UrlPath(url)))
            base_title == IF stem # <<>> THEN stem ELSE FallbackName
        IN DerivedBase = IF Len(images) > 1
                         THEN base_title \o <<"_">> \o ToStr(idx + 1)
                         ELSE base_title

\* Every entry of the cache whose file exists holds the image of its URL.
KeepsContent(cache, fs) ==
    \A n \in Keys(cache) : Exists(fs, n) => fs[n] = Img(Get(cache, n))

\* C12 (Content integrity): if at run start every cache entry whose file exists
\* holds the image of its URL, then so does every entry of the cache at every
\* point of the run and of the cache the run persists; and a rename only moves
\* a file that the cache binds to the URL being processed.
C12_ContentIntegrity ==
    [][ KeepsContent(load_json(startFile), startStore) =>
            /\ KeepsContent(image_cache', files')
            /\ pc' = "done" => KeepsContent(load_json(cacheFile'), files')
            /\ (pc = "resolved" /\ files' # files) =>
                  Binds(image_cache, existing_name, url) ]_vars

\* Between two pairs: the loops of main are about to take the next URL or poster.
Boundary == pc \in {"posters", "images"}

\* url_to_filename[u] = n if and only if image_cache[n] = u.
IndexIsInverse ==
    /\ \A u \in DOMAIN url_to_filename : Binds(image_cache, url_to_filename[u], u)
    /\ \A n \in Keys(image_cache) :
          Lookup(url_to_filename, Get(image_cache, n)) = n

\* C13 (Index consistency): in a run whose cache at run start bound no URL to
\* two filenames, the URL index is the exact inverse of the cache at every
\* boundary between two pairs.
C13_IndexConsistency ==
    (Boundary /\ OneNamePerUrl(load_json(startFile))) => IndexIsInverse

\* C14 (Cache/reserved lockstep): at every boundary between two pairs the
\* reserved names are the keys of the cache, and every step changes the key set
\* of the cache and the reserved set together or not at all, a stale drop whose
\* fetch then fails included.
C14_Lockstep ==
    [][ /\ Boundary' => reserved_names' = Keys(image_cache')
        /\ (Keys(image_cache') # Keys(image_cache)) <=>
              (reserved_names' # reserved_names) ]_vars

\* C14 witness: a stale entry was dropped, the fetch failed, and the pair is
\* over with the name gone from the cache and from the reserved set.
C14_Witness ==
    /\ pc = "images"
    /\ failed = 1 /\ downloaded = 0 /\ renamed = 0
    /\ Keys(load_json(startFile)) \ Keys(image_cache) # {}
    /\ reserved_names = Keys(image_cache)

\* C15 (At most one name per URL): in a run whose cache at run start bound no
\* URL to two filenames, no URL is the value of two keys of the cache at any
\* boundary between two pairs, nor of the cache the run persists.
C15_OneNamePerUrl ==
    OneNamePerUrl(load_json(startFile)) =>
        /\ Boundary => OneNamePerUrl(image_cache)
        /\ pc = "done" => OneNamePerUrl(load_json(cacheFile))

\* C15 witness: such a run is done in which one URL occurred under two titles,
\* was resolved to two different names, and is cached under one.
C15_Witness ==
    /\ pc = "done"
    /\ OneNamePerUrl(load_json(startFile))
    /\ \E r1, r2 \in resolved :
          /\ r1[1] = r2[1] /\ r1[2] # r2[2]
          /\ \E n \in Keys(image_cache) :
                SoleEntry(load_json(cacheFile), files, n, r1[1])

\* download_image is running: an attempt is about to start or is streaming.
Attempting == pc \in {"download", "streaming"}
Returned == pc = "fetched"
Raised == pc = "raised"

\* C16 (Bounded retries): a call of download_image makes at most Retries
\* attempts, each after a failed one; it returns at the first attempt that
\* succeeds and raises only after attempt number Retries failed; it always
\* returns or raises; whenever it has returned or raised no temp file of the
\* destination is on disk; and main then leaves the pair without another call:
\* a call starts only from a freshly resolved pair.
C16_BoundedRetries ==
    /\ [](InCall => attempt \in 1..Retries)
    /\ []((Attempting /\ attempt > 1) => lastError # "none")
    /\ [](Raised => (attempt = Retries /\ lastError # "none"))
    /\ []((Returned \/ Raised) => ~Exists(files, TempPath(target_filename)))
    /\ [][ /\ (Returned \/ Raised) =>
                 (pc' = "images" /\ idx' = idx + 1 /\ fetches' = fetches)
           /\ (pc = "streaming" /\ Returned') => (attempt' = attempt)
           /\ (fetches' # fetches) =>
                 (pc = "resolved" /\ fetches' = fetches + 1) ]_vars
    /\ Attempting ~> (Returned \/ Raised)

\* C16 witness: the stream of the last attempt broke, the call has raised and
\* the temp file is gone.
C16_Witness ==
    /\ Raised
    /\ attempt = Retries
    /\ lastError = "transient"
    /\ ~Exists(files, TempPath(target_filename))
    /\ fetches = 1

\* The names the cache binds to the current URL although their file is missing.
StaleNames ==
    {n \in Keys(image_cache) : Get(image_cache, n) = url /\ ~Exists(files, n)}

\* C17 (Stale entry dropped before fetching): when download_image is called for
\* a pair whose URL has a cache entry without file, that entry is removed from
\* the cache and its name unreserved by the step that starts the fetch, whether
\* its name is the target or not; and when the fetch fails, the pair ends with
\* no entry of the URL in the cache, as does the run in the cache it persists
\* if the URL occurs once in the manifest.
C17_StaleDroppedBeforeFetch ==
    [][ /\ (pc = "resolved" /\ pc' = "download") =>
              \A n \in StaleNames :
                  ~Has(image_cache', n) /\ n \notin reserved_names'
        /\ (pc = "raised" /\ stale) => url \notin Values(image_cache')
        /\ (pc' = "done" /\ DistinctUrls' /\ downloaded' = 0 /\ renamed' = 0) =>
              \A r \in resolved' :
                  (r[1] \in Values(load_json(startFile)) /\ skipped' = 0) =>
                      r[1] \notin Values(load_json(cacheFile')) ]_vars

\* C18 (Skip has no effect): a pair resolved while the cache maps its target to
\* its URL and the asset file exists is counted as skipped, and the step leaves
\* the cache, the URL index, the reserved set, the asset store and the cache
\* file as they are, calls no download and renames nothing.
C18_SkipNoEffect ==
    [][ (/\ pc = "resolved"
         /\ Binds(image_cache, target_filename, url)
         /\ Exists(files, target_filename)) =>
            /\ skipped' = skipped + 1
            /\ UNCHANGED <<image_cache, url_to_filename, reserved_names>>
            /\ UNCHANGED <<files, cacheFile>>
            /\ fetches' = fetches /\ downloaded' = downloaded /\ renamed' = renamed
            /\ pc' = "images" /\ idx' = idx + 1 ]_vars

\* C18 witness: the first pair of a run has been skipped: one skip counted, the
\* cache and the asset store as at run start, its file on disk.
C18_Witness ==
    /\ pc = "images"
    /\ skipped = 1 /\ fetches = 0 /\ renamed = 0
    /\ idx > 0
    /\ Binds(image_cache, target_filename, images[idx])
    /\ Exists(files, target_filename)
    /\ image_cache = load_json(startFile)
    /\ files = startStore

\* The name is bound in the cache to the current URL, or is neither a key of the
\* cache nor reserved.
Free(name) ==
    \/ Binds(image_cache, name, url)
    \/ ~Has(image_cache, name) /\ name \notin reserved_names

\* The k-th candidate of the pair being processed.
PairCandidate(k) ==
    LET be == filename_from_title(poster.title, url, idx, Len(images))
    IN NthCandidate(be[1], be[2], k)

\* The manifest is two posters of one image each, with the same title and two
\* different URLs of the same extension.
TwoOfOneTitle ==
    /\ Len(meta) = 2
    /\ Len(meta[1].images) = 1 /\ Len(meta[2].images) = 1
    /\ meta[1].title = meta[2].title
    /\ meta[1].images[1] # EmptyUrl /\ meta[2].images[1] # EmptyUrl
    /\ meta[1].images[1] # meta[2].images[1]
    /\ UrlExt(meta[1].images[1]) = UrlExt(meta[2].images[1])

\* C19 (First free candidate): the name choose_filename returns is the first of
\* base+ext, base_2+ext, base_3+ext, ... that the cache binds to this URL or that
\* is neither a key of the cache nor reserved; and a run from an empty cache
\* whose fetches succeed, over two single-image posters of one title and
\* different URLs, caches them as <title><ext> and <title>_2<ext>.
C19_FirstFreeCandidate ==
    /\ pc = "resolved" =>
          \E k \in 1..(Len(image_cache) + Cardinality(reserved_names) + 1) :
              /\ target_filename = PairCandidate(k)
              /\ Free(PairCandidate(k))
              /\ \A j \in 1..(k - 1) : ~Free(PairCandidate(j))
    /\ (pc = "done" /\ load_json(startFile) = <<>> /\ failed = 0 /\ TwoOfOneTitle) =>
          LET st == sanitize_title(meta[1].title)
              ext == UrlExt(meta[1].images[1])
          IN /\ Binds(image_cache, NthCandidate(st, ext, 1), meta[1].images[1])
             /\ Binds(image_cache, NthCandidate(st, ext, 2), meta[2].images[1])
             /\ cacheFile = Json(image_cache)

\* C19 witness: the first candidate belongs to another URL and the second is
\* the name the cache already binds to this URL: it is returned, not renumbered.
C19_Witness ==
    /\ pc = "resolved"
    /\ target_filename = PairCandidate(2)
    /\ Has(image_cache, PairCandidate(1))
    /\ Get(image_cache, PairCandidate(1)) # url
    /\ Binds(image_cache, PairCandidate(2), url)

\* The URLs of the manifest read so far.
ManifestUrls == {PairUrls(meta)[i] : i \in DOMAIN PairUrls(meta)}

\* C20 (Entries outside the manifest are untouched): for every entry
\* name -> url of the cache at run start whose URL does not occur in the
\* manifest, assets/name is at every point of the run as it was at run start,
\* present or absent; the cache keeps name -> url once loaded; and the cache
\* the run persists holds name -> url.
C20_OutsideUntouched ==
    \A i \in DOMAIN load_json(startFile) :
        LET name == load_json(startFile)[i][1]
            u == load_json(startFile)[i][2]
        IN u \notin ManifestUrls =>
              /\ FileAt(files, name) = FileAt(startStore, name)
              /\ pc \notin {"main", "error"} => Binds(image_cache, name, u)
              /\ pc = "done" => Binds(load_json(cacheFile), name, u)
====
